---- MODULE Spec2Model ----
(***************************************************************************)
(* Field validation / reformatting pipeline of the payment card form       *)
(* (Telegram/SourceFiles/payments/ui/payments_edit_card.cpp).              *)
(*                                                                         *)
(* A QString is a sequence of QChar codes (integers).  C++ offsets are     *)
(* 0-based, sequence indices 1-based: character i of the code is s[i+1].   *)
(* The value classifiers (Stripe::ValidateCard, ValidateExpireDate,        *)
(* ValidateCvc) only produce the invalid/finished flags, which never feed  *)
(* back into value or position, so they are left out.  The grouping scheme *)
(* Stripe::CardNumberFormat is external: it is an input of the formatter.  *)
(***************************************************************************)
EXTENDS Integers, Sequences, FiniteSets, TLC

VARIABLES
    kind,       \* which validator the field was built with: "card", "expire", "cvc"
    value,      \* text shown by the field
    position,   \* cursor of the field
    op,         \* the last edit: "none", "type", "paste", "backspace", "delete", "replace";
                \* "raw" for a request no key press produces
    result,     \* the last FieldValidateResult (value, position)
    request,    \* single calls: the FieldValidateRequest
    groups,     \* single calls: what Stripe::CardNumberFormat returns
    real,       \* single calls: realNowState (with the classification)
    pc,         \* "field" in an editing session; the stage of a single call otherwise
    again       \* single calls: the formatter's output, stripped and formatted again

vars == <<kind, value, position, op, result, request, groups, real, pc, again>>

-----------------------------------------------------------------------------
(* Characters *)

Space == 32
Slash == 47
Zero == 48
One == 49
Two == 50

D(n) == Zero + n

IsDigit(c) == c >= Zero /\ c <= D(9)

-----------------------------------------------------------------------------
(* Bounds of the model *)

MaxFieldDigits == 3
MaxPaste == 2
MaxCardDigits == 4
MaxExpireDigits == 5
MaxGroupLength == 2
MaxGroups == 3
MaxText == 3

CardDigits == {D(4), D(2)}
ExpireDigits == {D(0), D(1), D(2), D(3)}
FormatDigits == {D(0), D(1), D(2), D(3)}

Strings(alphabet, n) == UNION {[1..k -> alphabet] : k \in 0..n}

-----------------------------------------------------------------------------
(* QString primitives, as the code uses them *)

\* QString::mid(position, n) / midRef: n < 0 means "to the end"; a negative
\* position is cut off at 0, a position past the end gives a null string.
Mid(s, pos, n) ==
    LET len == Len(s) IN
    IF pos > len THEN <<>>
    ELSE IF pos < 0
        THEN IF n < 0 \/ n + pos >= len THEN s
             ELSE IF n + pos <= 0 THEN <<>>
             ELSE SubSeq(s, 1, n + pos)
        ELSE LET l == IF n < 0 \/ n > len - pos THEN len - pos ELSE n
             IN SubSeq(s, pos + 1, pos + l)

\* QString::insert(i, ch) for 0 <= i: a string shorter than i is first padded
\* with spaces.
Insert(s, i, c) ==
    IF i > Len(s)
        THEN s \o [k \in 1..(i - Len(s)) |-> Space] \o <<c>>
        ELSE SubSeq(s, 1, i) \o <<c>> \o SubSeq(s, i + 1, Len(s))

\* result.value[i] on a non-const QString: the character, or the terminating
\* null character when i is not below size() (what QCharRef and the raw
\* buffer both give).
At(s, i) == IF i >= 0 /\ i < Len(s) THEN s[i + 1] ELSE 0

Max(a, b) == IF a >= b THEN a ELSE b

-----------------------------------------------------------------------------
(* Stripping *)

RemoveNonNumbers(s) == SelectSeq(s, IsDigit)

NumbersOnlyState(state) ==
    [value |-> RemoveNonNumbers(state.value),
     position |-> Len(RemoveNonNumbers(Mid(state.value, 0, state.position)))]

-----------------------------------------------------------------------------
(* Canonical formatters *)

\* The loop of PostprocessCardValidateResult: `at` is the local `position`,
\* `rest` the groups not yet visited.
RECURSIVE CardGroupsLoop(_, _, _)
CardGroupsLoop(state, at, rest) ==
    IF rest = <<>> THEN state
    ELSE LET next == at + Head(rest) IN
         IF next >= Len(state.value) THEN state
         ELSE CardGroupsLoop(
                [value |-> Insert(state.value, next, Space),
                 position |-> IF state.position >= next
                                THEN state.position + 1
                                ELSE state.position],
                next + 1,
                Tail(rest))

\* Mutant: the cursor is moved only when it is strictly after the space.
RECURSIVE CardGroupsLoopStrict(_, _, _)
CardGroupsLoopStrict(state, at, rest) ==
    IF rest = <<>> THEN state
    ELSE LET next == at + Head(rest) IN
         IF next >= Len(state.value) THEN state
         ELSE CardGroupsLoopStrict(
                [value |-> Insert(state.value, next, Space),
                 position |-> IF state.position > next
                                THEN state.position + 1
                                ELSE state.position],
                next + 1,
                Tail(rest))

CardCursorStrictlyAfter(state, format) == CardGroupsLoopStrict(state, 0, format)

PostprocessCardValidateResult(state, format) == CardGroupsLoop(state, 0, format)

\* Mutant: no branch for the months 13..19.
ExpireWithoutLateMonth(state) ==
    IF Len(state.value) = 0 THEN state
    ELSE LET prefixed ==
                IF At(state.value, 0) > One
                    THEN [value |-> <<Zero>> \o state.value,
                          position |-> state.position + 1]
                    ELSE state
         IN IF Len(prefixed.value) > 1
                THEN LET cut == IF Len(prefixed.value) > 4
                                  THEN Mid(prefixed.value, 0, 4)
                                  ELSE prefixed.value
                     IN [value |-> Insert(cut, 2, Slash),
                         position |-> IF prefixed.position >= 2
                                        THEN prefixed.position + 1
                                        ELSE prefixed.position]
                ELSE prefixed

\* Mutant: the zero is put before every first digit but '1' (!= for >).
ExpireZeroUnlessOne(state) ==
    IF Len(state.value) = 0 THEN state
    ELSE IF At(state.value, 0) = One /\ At(state.value, 1) > Two
        THEN [value |-> Mid(state.value, 0, 2), position |-> state.position]
    ELSE LET prefixed ==
                IF At(state.value, 0) # One
                    THEN [value |-> <<Zero>> \o state.value,
                          position |-> state.position + 1]
                    ELSE state
         IN IF Len(prefixed.value) > 1
                THEN LET cut == IF Len(prefixed.value) > 4
                                  THEN Mid(prefixed.value, 0, 4)
                                  ELSE prefixed.value
                     IN [value |-> Insert(cut, 2, Slash),
                         position |-> IF prefixed.position >= 2
                                        THEN prefixed.position + 1
                                        ELSE prefixed.position]
                ELSE prefixed

\* Mutant: the cursor is not moved past the zero put in front.
ExpireZeroCursorKept(state) ==
    IF Len(state.value) = 0 THEN state
    ELSE IF At(state.value, 0) = One /\ At(state.value, 1) > Two
        THEN [value |-> Mid(state.value, 0, 2), position |-> state.position]
    ELSE LET prefixed ==
                IF At(state.value, 0) > One
                    THEN [value |-> <<Zero>> \o state.value,
                          position |-> state.position]
                    ELSE state
         IN IF Len(prefixed.value) > 1
                THEN LET cut == IF Len(prefixed.value) > 4
                                  THEN Mid(prefixed.value, 0, 4)
                                  ELSE prefixed.value
                     IN [value |-> Insert(cut, 2, Slash),
                         position |-> IF prefixed.position >= 2
                                        THEN prefixed.position + 1
                                        ELSE prefixed.position]
                ELSE prefixed

PostprocessExpireDateValidateResult(state) ==
    IF Len(state.value) = 0 THEN state
    ELSE IF At(state.value, 0) = One /\ At(state.value, 1) > Two
        THEN [value |-> Mid(state.value, 0, 2), position |-> state.position]
    ELSE LET prefixed ==
                IF At(state.value, 0) > One
                    THEN [value |-> <<Zero>> \o state.value,
                          position |-> state.position + 1]
                    ELSE state
         IN IF Len(prefixed.value) > 1
                THEN LET cut == IF Len(prefixed.value) > 4
                                  THEN Mid(prefixed.value, 0, 4)
                                  ELSE prefixed.value
                     IN [value |-> Insert(cut, 2, Slash),
                         position |-> IF prefixed.position >= 2
                                        THEN prefixed.position + 1
                                        ELSE prefixed.position]
                ELSE prefixed

\* The offsets PostprocessExpireDateValidateResult hands to operator[] of
\* state.value, paired with the size of the string at that moment.
ExpireDateIndexReads(state) ==
    IF Len(state.value) = 0 THEN {}
    ELSE {<<0, Len(state.value)>>}
         \cup (IF At(state.value, 0) = One THEN {<<1, Len(state.value)>>} ELSE {})

-----------------------------------------------------------------------------
(* Snapshot differencer *)

IsBackspace(r) ==
    /\ r.wasAnchor = r.wasPosition
    /\ r.wasPosition = r.nowPosition + 1
    /\ Mid(r.wasValue, 0, r.wasPosition - 1) = Mid(r.nowValue, 0, r.nowPosition)
    /\ Mid(r.wasValue, r.wasPosition, -1) = Mid(r.nowValue, r.nowPosition, -1)

\* Mutant: the text after the cursor is compared without skipping the
\* deleted character.
IsDeleteNothingSkipped(r) ==
    /\ r.wasAnchor = r.wasPosition
    /\ r.wasPosition = r.nowPosition
    /\ Mid(r.wasValue, 0, r.wasPosition) = Mid(r.nowValue, 0, r.nowPosition)
    /\ Mid(r.wasValue, r.wasPosition, -1) = Mid(r.nowValue, r.nowPosition, -1)

IsDelete(r) ==
    /\ r.wasAnchor = r.wasPosition
    /\ r.wasPosition = r.nowPosition
    /\ Mid(r.wasValue, 0, r.wasPosition) = Mid(r.nowValue, 0, r.nowPosition)
    /\ Mid(r.wasValue, r.wasPosition + 1, -1) = Mid(r.nowValue, r.nowPosition, -1)

\* realNowState of ComplexNumberValidator, with the two flags it was built from.
RealNowState(r) ==
    LET backspaced == IsBackspace(r)
        deleted == IsDelete(r)
        realWasState == NumbersOnlyState([value |-> r.wasValue, position |-> r.wasPosition])
        changedValue ==
            IF deleted
                THEN Mid(realWasState.value, 0, realWasState.position)
                     \o Mid(realWasState.value, realWasState.position + 1, -1)
            ELSE IF realWasState.position > 1
                THEN Mid(realWasState.value, 0, realWasState.position - 1)
                     \o Mid(realWasState.value, realWasState.position, -1)
            ELSE Mid(realWasState.value, realWasState.position, -1)
        state ==
            IF ~backspaced /\ ~deleted
                THEN NumbersOnlyState([value |-> r.nowValue, position |-> r.nowPosition])
                ELSE [value |-> changedValue,
                      position |-> IF deleted
                                     THEN realWasState.position
                                     ELSE Max(realWasState.position - 1, 0)]
    IN [value |-> state.value, position |-> state.position,
        backspaced |-> backspaced, deleted |-> deleted]

State(r) == [value |-> r.value, position |-> r.position]

-----------------------------------------------------------------------------
(* Validators *)

CardNumberValidator(r, format) ==
    PostprocessCardValidateResult(State(RealNowState(r)), format)

ExpireDateValidator(r) ==
    PostprocessExpireDateValidateResult(State(RealNowState(r)))

CvcValidator(r) ==
    LET now == NumbersOnlyState([value |-> r.nowValue, position |-> r.nowPosition])
    IN [value |-> now.value, position |-> now.position,
        backspaced |-> FALSE, deleted |-> FALSE]

-----------------------------------------------------------------------------
(* Inputs *)

NoState == [value |-> <<>>, position |-> 0]

NoReal == [value |-> <<>>, position |-> 0, backspaced |-> FALSE, deleted |-> FALSE]

NoRequest ==
    [wasValue |-> <<>>, wasPosition |-> 0, wasAnchor |-> 0,
     nowValue |-> <<>>, nowPosition |-> 0]

Kinds == {"card", "expire", "cvc"}

Alphabet(k) == IF k = "expire" THEN ExpireDigits ELSE CardDigits

\* Grouping schemes: every sequence of 1..MaxGroups positive group lengths up
\* to MaxGroupLength, and the schemes 4-4-4-4, 4-6-5 and 4-4-4-4-4.
SmallSchemes == UNION {[1..k -> 1..MaxGroupLength] : k \in 1..MaxGroups}

NamedSchemes == {<<4, 4, 4, 4>>, <<4, 6, 5>>, <<4, 4, 4, 4, 4>>}

FieldSchemes == {<<4, 4, 4, 4>>, <<1, 2>>}

SchemesOf(k) == IF k = "card" THEN FieldSchemes ELSE {<<>>}

Remove(s, i) == SubSeq(s, 1, i) \o SubSeq(s, i + 2, Len(s))

Splice(s, lo, hi, text) == SubSeq(s, 1, lo) \o text \o SubSeq(s, hi + 1, Len(s))

Clamp(p, s) == IF p < 0 THEN 0 ELSE IF p > Len(s) THEN Len(s) ELSE p

Request(was, p, a, now, q) ==
    [wasValue |-> was, wasPosition |-> p, wasAnchor |-> a,
     nowValue |-> now, nowPosition |-> q]

(* What the text widget reports for one key pressed in the text `was`. *)

TypeRequests(was, digits) ==
    {Request(was, p, p, Insert(was, p, d), p + 1) : p \in 0..Len(was), d \in digits}

PasteRequests(was, digits) ==
    UNION {{Request(was, p, p, Splice(was, p, p, text), p + Len(text))
                : p \in 0..Len(was)}
           : text \in UNION {[1..n -> digits] : n \in 2..MaxPaste}}

BackspaceRequests(was) ==
    {Request(was, p, p, Remove(was, p - 1), p - 1) : p \in 1..Len(was)}

DeleteRequests(was) ==
    {Request(was, p, p, Remove(was, p), p) : p \in 0..(Len(was) - 1)}

\* A selection is removed (Backspace or Delete) or typed over.
ReplaceRequests(was, digits) ==
    UNION {{Request(was, p, a,
                    Splice(was, IF a < p THEN a ELSE p, IF a < p THEN p ELSE a, text),
                    (IF a < p THEN a ELSE p) + Len(text))
                : text \in Strings(digits, 1)}
           : <<p, a>> \in {pa \in (0..Len(was)) \X (0..Len(was)) : pa[1] # pa[2]}}

-----------------------------------------------------------------------------
(* One call of the field's validator *)

RealOf(k, r) == IF k = "cvc" THEN CvcValidator(r) ELSE RealNowState(r)

Validate(k, r, format) ==
    IF k = "card" THEN CardNumberValidator(r, format)
    ELSE IF k = "expire" THEN ExpireDateValidator(r)
    ELSE State(CvcValidator(r))

-----------------------------------------------------------------------------
(* An editing session of one field *)

\* The field hands the request to its validator and shows what comes back;
\* the widget keeps its cursor inside the text.
Edit(name, r) ==
    \E format \in SchemesOf(kind) :
        LET res == Validate(kind, r, format) IN
        /\ op' = name
        /\ result' = res
        /\ value' = res.value
        /\ position' = Clamp(res.position, res.value)
        /\ UNCHANGED <<kind, request, groups, real, pc, again>>

\* The expiry field never shows more than four digits; the other two are cut
\* off by the bound of the model.
CanGrow(r) ==
    kind = "expire" \/ Len(RemoveNonNumbers(r.nowValue)) <= MaxFieldDigits

(* The cursor is put anywhere (the offset the last result left it at
   included) and one key is pressed. *)

TypeDigit ==
    /\ pc = "field"
    /\ \E r \in TypeRequests(value, Alphabet(kind)) : CanGrow(r) /\ Edit("type", r)

Paste ==
    /\ pc = "field"
    /\ \E r \in PasteRequests(value, Alphabet(kind)) : CanGrow(r) /\ Edit("paste", r)

Backspace ==
    /\ pc = "field"
    /\ \E r \in BackspaceRequests(value) : Edit("backspace", r)

Delete ==
    /\ pc = "field"
    /\ \E r \in DeleteRequests(value) : Edit("delete", r)

ReplaceSelection ==
    /\ pc = "field"
    /\ \E r \in ReplaceRequests(value, Alphabet(kind)) : CanGrow(r) /\ Edit("replace", r)

Init ==
    /\ kind \in Kinds
    /\ value = <<>> /\ position = 0
    /\ op = "none" /\ request = NoRequest /\ groups = <<>>
    /\ real = NoReal /\ result = NoState
    /\ pc = "field" /\ again = NoState

Next == TypeDigit \/ Paste \/ Backspace \/ Delete \/ ReplaceSelection

Spec == Init /\ [][Next]_vars

-----------------------------------------------------------------------------
(* Single calls of the validators on any request *)

TextChars == {D(1), D(3), Slash}

\* A request no key press produces: offsets that do not belong to the texts.
RawRequests(was) ==
    {Request(was, p, a, now, q) :
        p \in (0 - 1)..(Len(was) + 1),
        a \in (0 - 1)..(Len(was) + 1),
        now \in {was} \cup {Remove(was, i) : i \in 0..(Len(was) - 1)},
        q \in (0 - 1)..(Len(was) + 1)}

RequestsOf(name, was) ==
    CASE name = "type" -> TypeRequests(was, {D(1), D(3)})
      [] name = "paste" -> PasteRequests(was, {D(1), D(3)})
      [] name = "backspace" -> BackspaceRequests(was)
      [] name = "delete" -> DeleteRequests(was)
      [] name = "replace" -> ReplaceRequests(was, {D(1), D(3)})
      [] name = "raw" -> RawRequests(was)

InitRequest ==
    /\ kind \in Kinds
    /\ groups \in SchemesOf(kind)
    /\ op \in {"type", "paste", "backspace", "delete", "replace", "raw"}
    /\ \E was \in Strings(TextChars, MaxText) : request \in RequestsOf(op, was)
    /\ value = request.wasValue /\ position = request.wasPosition
    /\ real = NoReal /\ result = NoState
    /\ pc = "request" /\ again = NoState

Evaluate ==
    /\ pc = "request"
    /\ real' = RealOf(kind, request)
    /\ result' = Validate(kind, request, groups)
    /\ value' = result'.value
    /\ position' = Clamp(result'.position, result'.value)
    /\ pc' = "validated"
    /\ UNCHANGED <<kind, op, request, groups, again>>

NextRequest == Evaluate

SpecRequest == InitRequest /\ [][NextRequest]_vars

-----------------------------------------------------------------------------
(* Single runs of the formatters on any numbers-only state *)

CardExample == [i \in 1..16 |-> IF i % 2 = 1 THEN D(4) ELSE D(2)]

\* A first digit 2..9 alone, and then followed by a 5; a month 13 and a 5.
ExpireExamples ==
    {<<D(d)>> : d \in 2..9} \cup {<<Zero, D(d), D(5)>> : d \in 2..9}
        \cup {<<One, D(3), D(5)>>}

StatesOf(values) ==
    UNION {{[value |-> v, position |-> c] : c \in 0..Len(v)} : v \in values}

Format(k, state, format) ==
    IF k = "card" THEN PostprocessCardValidateResult(state, format)
    ELSE PostprocessExpireDateValidateResult(state)

InitFormat ==
    /\ kind \in {"card", "expire"}
    /\ \/ /\ kind = "card"
          /\ \/ /\ groups \in SmallSchemes \cup NamedSchemes
                /\ \E state \in StatesOf(Strings(CardDigits, MaxCardDigits)) :
                        real = [value |-> state.value, position |-> state.position,
                                backspaced |-> FALSE, deleted |-> FALSE]
             \/ /\ groups \in NamedSchemes
                /\ \E state \in StatesOf({CardExample}) :
                        real = [value |-> state.value, position |-> state.position,
                                backspaced |-> FALSE, deleted |-> FALSE]
       \/ /\ kind = "expire"
          /\ groups = <<>>
          /\ \E state \in StatesOf(Strings(FormatDigits, MaxExpireDigits) \cup ExpireExamples) :
                real = [value |-> state.value, position |-> state.position,
                        backspaced |-> FALSE, deleted |-> FALSE]
    /\ value = <<>> /\ position = 0
    /\ op = "none" /\ request = NoRequest
    /\ result = NoState
    /\ pc = "input" /\ again = NoState

FormatOnce ==
    /\ pc = "input"
    /\ result' = Format(kind, State(real), groups)
    /\ pc' = "formatted"
    /\ UNCHANGED <<kind, value, position, op, request, groups, real, again>>

\* The formatted text comes back with the cursor at any offset of it, through
\* the numbers-only projection as in ComplexNumberValidator.  The number is
\* the same, and so is its grouping scheme.
FormatAgain ==
    /\ pc = "formatted"
    /\ \E c \in 0..Len(result.value) :
        /\ value' = result.value
        /\ position' = c
        /\ again' = Format(kind, NumbersOnlyState([value |-> result.value, position |-> c]), groups)
    /\ pc' = "reformatted"
    /\ UNCHANGED <<kind, op, request, groups, real, result>>

NextFormat == FormatOnce \/ FormatAgain

SpecFormat == InitFormat /\ [][NextFormat]_vars

-----------------------------------------------------------------------------
(* Properties *)

Count(s, c) == Cardinality({i \in 1..Len(s) : s[i] = c})

SameDigits(s, t) == \A d \in 0..9 : Count(s, D(d)) = Count(t, D(d))

Min(a, b) == IF a <= b THEN a ELSE b

\* C1: every result of the card-number, expiry and CVC validators has its
\* cursor inside its text: 0 <= position <= length(value).
C1_CursorBounds ==
    op # "none" => result.position >= 0 /\ result.position <= Len(result.value)

\* C8: in the expiry field, after any sequence of edits, a shown '/' is the
\* only one, sits at offset 2 after two digits that make a month of at most 12
\* and before at most two digits, and the text is never longer than 5.
C8_ExpireShape ==
    kind = "expire" =>
        /\ Len(value) <= 5
        /\ (\E i \in 1..Len(value) : value[i] = Slash) =>
            /\ Len(value) >= 3
            /\ \A i \in 1..Len(value) :
                IF i = 3 THEN value[i] = Slash ELSE IsDigit(value[i])
            /\ (value[1] - Zero) * 10 + (value[2] - Zero) <= 12

C8_Witness ==
    /\ kind = "expire"
    /\ op = "backspace"
    /\ value = <<One, Two, Slash, D(3)>>

\* C9: no validator reads a character at an offset that is not below the size
\* of the string it reads, whatever the request.
C9_NoReadPastEnd ==
    (pc = "validated" /\ kind = "expire") =>
        \A read \in ExpireDateIndexReads(State(real)) : read[1] < read[2]

\* The digits of a text, and how many of them stand before offset p.
DigitsOf(text) == SelectSeq(text, LAMBDA c : c >= Zero /\ c <= Zero + 9)

DigitsBefore(text, p) ==
    Cardinality({i \in 1..p : text[i] >= Zero /\ text[i] <= Zero + 9})

Without(s, i) == [j \in 1..(Len(s) - 1) |-> IF j < i THEN s[j] ELSE s[j + 1]]

\* C10: a Backspace (no selection, cursor inside the text) is classified as a
\* backward delete and the stripped state is the digits of the text before,
\* without the digit just before the stripped cursor, the cursor one to the
\* left (unchanged digits and cursor 0 when no digit stands before it); a
\* Delete is classified as a forward delete and the stripped state is those
\* digits without the one at the stripped cursor, the cursor unchanged.
C10_SingleKeyDeletion ==
    (pc = "validated" /\ kind \in {"card", "expire"}) =>
        LET digits == DigitsOf(request.wasValue)
            before == DigitsBefore(request.wasValue, request.wasPosition)
        IN /\ op = "backspace" =>
                /\ real.backspaced /\ ~real.deleted
                /\ IF before >= 1
                     THEN State(real) = [value |-> Without(digits, before),
                                         position |-> before - 1]
                     ELSE State(real) = [value |-> digits, position |-> 0]
           /\ op = "delete" =>
                /\ real.deleted /\ ~real.backspaced
                /\ IF before < Len(digits)
                     THEN State(real) = [value |-> Without(digits, before + 1),
                                         position |-> before]
                     ELSE State(real) = [value |-> digits, position |-> before]

\* A Backspace right after a separator, with two digits before it.
C10_Witness ==
    /\ pc = "validated" /\ kind = "expire" /\ op = "backspace"
    /\ request.wasValue = <<One, D(3), Slash>> /\ request.wasPosition = 3
    /\ real.backspaced
    /\ real.value = <<One>>

-----------------------------------------------------------------------------
(* Properties of the formatters *)

Formatted == pc \in {"formatted", "reformatted"}

RECURSIVE Sum(_, _)
Sum(format, k) == IF k = 0 THEN 0 ELSE Sum(format, k - 1) + format[k]

Boundaries(format, n) == {b \in {Sum(format, k) : k \in 1..Len(format)} : b < n}

\* C4: the card formatter's output is its input with one space after every
\* cumulative group boundary below the number of digits, and the cursor moves
\* right by the number of those boundaries that are at or before it.
C4_CardReference ==
    (Formatted /\ kind = "card") =>
        LET in == real.value
            n == Len(in)
            bounds == Boundaries(groups, n)
            shift(i) == Cardinality({b \in bounds : b <= i})
            places == {i + shift(i) : i \in 0..(n - 1)}
        IN /\ Len(result.value) = n + Cardinality(bounds)
           /\ \A i \in 0..(n - 1) : result.value[i + shift(i) + 1] = in[i + 1]
           /\ \A j \in 0..(Len(result.value) - 1) :
                j \notin places => result.value[j + 1] = Space
           /\ result.position = real.position + shift(real.position)

\* Two spaces went in and the cursor, on the second boundary, passed both.
C4_Witness ==
    /\ pc = "formatted" /\ kind = "card"
    /\ groups = <<1, 2>>
    /\ real.value = <<D(4), D(2), D(4), D(2)>> /\ real.position = 3
    /\ result.value = <<D(4), Space, D(2), D(4), Space, D(2)>>
    /\ result.position = 5

GroupedExample ==
    [i \in 1..19 |-> IF i % 5 = 0 THEN Space ELSE IF i % 5 \in {1, 3} THEN D(4) ELSE D(2)]

IsExampleRun ==
    /\ pc = "formatted" /\ kind = "card"
    /\ real.value = CardExample /\ groups = <<4, 4, 4, 4, 4>>
    /\ real.position = 8

\* C5 as stated: "4242424242424242" under 4-4-4-4-4 gives
\* "4242 4242 4242 4242" and the cursor at stripped offset 8 lands at 9.
C5_CursorLandsAt9 ==
    IsExampleRun => result.value = GroupedExample /\ result.position = 9

\* C5, amended: ... and the cursor at stripped offset 8 lands at 10, behind
\* the space of the boundary it sits on.
C5_CursorLandsAt10 ==
    IsExampleRun => result.value = GroupedExample /\ result.position = 10

C5_Witness == IsExampleRun /\ result.position = 10

IsFirstDigit == 
    /\ pc = "formatted" /\ kind = "expire"
    /\ Len(real.value) = 1 /\ real.value[1] >= D(2) /\ real.value[1] <= D(9)
    /\ real.position = 1

IsFirstDigitThenFive ==
    /\ pc = "formatted" /\ kind = "expire"
    /\ Len(real.value) = 3 /\ real.value[1] = Zero
    /\ real.value[2] >= D(2) /\ real.value[2] <= D(9)
    /\ real.value[3] = D(5)

\* C6 as stated: a single digit d of 2..9 with the cursor behind it becomes
\* "0d" with the cursor at 2, and "0d5" becomes "0d/5".
C6_LeadingZeroOnly ==
    /\ IsFirstDigit => result = [value |-> <<Zero, real.value[1]>>, position |-> 2]
    /\ IsFirstDigitThenFive =>
            result.value = <<Zero, real.value[2], Slash, D(5)>>

\* C6, amended: a single digit d of 2..9 with the cursor behind it becomes
\* "0d/" with the cursor at 3, and "0d5" becomes "0d/5".
C6_LeadingZeroAndSlash ==
    /\ IsFirstDigit =>
            result = [value |-> <<Zero, real.value[1], Slash>>, position |-> 3]
    /\ IsFirstDigitThenFive =>
            result.value = <<Zero, real.value[2], Slash, D(5)>>

C6_Witness ==
    /\ IsFirstDigit /\ real.value = <<D(3)>>
    /\ result = [value |-> <<Zero, D(3), Slash>>, position |-> 3]

IsLateMonth ==
    /\ pc = "formatted" /\ kind = "expire"
    /\ Len(real.value) >= 2 /\ real.value[1] = One /\ real.value[2] > Two

====
